---- MODULE Spec2Model ----
(***************************************************************************)
(* A model of the ngorm PostgreSQL dialect adapter:                        *)
(*   - Postgres.DataTypeOf (field descriptor -> column type),              *)
(*   - the catalog probes HasIndex / HasForeignKey / HasTable / HasColumn  *)
(*     / CurrentDatabase,                                                  *)
(*   - the Hstore codec (Hstore.Value / Hstore.Scan) on top of the         *)
(*     lib/pq hstore wire format.                                          *)
(* Go strings are modelled as TLA+ strings, byte for byte (ASCII only).    *)
(***************************************************************************)
EXTENDS Integers, Sequences, FiniteSets, TLC

VARIABLES
    field,   \* the *model.StructField handed to DataTypeOf
    calls,   \* one record per DataTypeOf call made on field so far
    h,       \* the Hstore a Scan decodes into (the receiver *h)
    codec,   \* the last Hstore operation: what was encoded, the driver value
    db,      \* the catalog of the connected database (s.DB)
    probe    \* the last introspection probe, its arguments and its result

vars == <<field, calls, h, codec, db, probe>>

----------------------------------------------------------------------------
(* Bounds of the model.                                                    *)

\* DataTypeOf is called at most MaxCalls times on one descriptor.
MaxCalls == 2
\* Sizes are drawn within MaxDelta of 0 and of the varchar limit.
MaxDelta == 1

(* Program constants.                                                      *)

\* size < 65532 in the string rule.
VarcharLimit == 65532
\* value.Type().Len() != 16 in isUUID.
UUIDLen == 16

----------------------------------------------------------------------------
(* Strings.                                                                *)

CharAt(s, i) == SubSeq(s, i, i)

UpperCase == "ABCDEFGHIJKLMNOPQRSTUVWXYZ"
LowerCase == "abcdefghijklmnopqrstuvwxyz"

\* unicode.ToLower on one ASCII byte.
ToLowerChar(c) ==
    IF \E i \in 1..Len(UpperCase) : CharAt(UpperCase, i) = c
    THEN LET i == CHOOSE j \in 1..Len(UpperCase) : CharAt(UpperCase, j) = c
         IN  CharAt(LowerCase, i)
    ELSE c

RECURSIVE ToLower(_)
\* strings.ToLower
ToLower(s) ==
    IF s = "" THEN "" ELSE ToLowerChar(CharAt(s, 1)) \o ToLower(Tail(s))

IsSpace(c) == c \in {" ", "\t", "\n", "\r", "\f"}

RECURSIVE TrimLeft(_)
TrimLeft(s) ==
    IF s # "" /\ IsSpace(CharAt(s, 1)) THEN TrimLeft(Tail(s)) ELSE s

RECURSIVE TrimRight(_)
TrimRight(s) ==
    IF s # "" /\ IsSpace(CharAt(s, Len(s)))
    THEN TrimRight(SubSeq(s, 1, Len(s) - 1))
    ELSE s

\* strings.TrimSpace
TrimSpace(s) == TrimRight(TrimLeft(s))

\* strings.HasPrefix
HasPrefix(s, p) == Len(s) >= Len(p) /\ SubSeq(s, 1, Len(p)) = p

----------------------------------------------------------------------------
(* Go maps with string keys: a function on the set of keys present.        *)

HasKey(m, k) == k \in DOMAIN m

\* m[k] = v
SetKey(m, k, v) == [x \in DOMAIN m \cup {k} |-> IF x = k THEN v ELSE m[x]]

EmptyMap == [x \in {} |-> ""]

----------------------------------------------------------------------------
(* reflect: the field's value as ParseFieldStructForDialect returns it, a  *)
(* record of what DataTypeOf reads of it:                                  *)
(*   kind      dataValue.Kind(), by its Kind.String()                      *)
(*   pkg, name the type's package path and dataValue.Type().Name()         *)
(*             ("" for an unnamed composite type)                          *)
(*   elem      the identity of Type().Elem() for arrays and slices         *)
(*   len       Type().Len() for arrays                                     *)

Int32Kinds == {"int", "int8", "int16", "int32",
               "uint", "uint8", "uint16", "uint32", "uintptr"}
Int64Kinds == {"int64", "uint64"}
FloatKinds == {"float32", "float64"}
ReflectValue(kind, pkg, name, elem, len) ==
    [kind |-> kind, pkg |-> pkg, name |-> name, elem |-> elem, len |-> len]

\* The values the model draws. ParseFieldStructForDialect dereferences
\* pointers and builds the value with reflect.New, so the kinds ptr and
\* invalid do not reach DataTypeOf.
Values ==
    {ReflectValue(k, "", k, "", 0) :
        k \in {"bool", "string"} \cup Int32Kinds \cup Int64Kinds \cup FloatKinds
              \cup {"complex64", "complex128"}}
    \cup {ReflectValue("int64", "main", "ID", "", 0), ReflectValue("uint", "main", "ID", "", 0)}
    \cup {ReflectValue(k, "", "", "", 0) : k \in {"chan", "func", "unsafe.Pointer"}}
    \cup {ReflectValue("interface", "", "", "", 0), ReflectValue("interface", "io", "Reader", "", 0)}
    \cup {ReflectValue("struct", "time", "Time", "", 0),
          ReflectValue("struct", "main", "Time", "", 0),
          ReflectValue("struct", "main", "User", "", 0)}
    \cup {ReflectValue("map", "main", n, "string", 0) : n \in {"Hstore", "hstore", "Meta"}}
    \cup {ReflectValue("map", "", "", "string", 0)}
    \cup {ReflectValue("slice", "", "", e, 0) : e \in {"uint8", "string"}}
    \cup {ReflectValue("slice", "main", "Blob", "uint8", 0)}
    \cup {ReflectValue("array", IF n = "" THEN "" ELSE "main", n, e, l) :
            n \in {"", "UUID", "Guid", "Hash"},
            e \in {"uint8", "int8", "string"},
            l \in {UUIDLen - 1, UUIDLen}}

\* _, ok := dataValue.Interface().(time.Time)
IsTime(dataValue) ==
    dataValue.kind = "struct" /\ dataValue.pkg = "time" /\ dataValue.name = "Time"

isByteArrayOrSlice(value) ==
    (value.kind = "array" \/ value.kind = "slice") /\ value.elem = "uint8"

isUUID(value) ==
    IF value.kind # "array" \/ value.len # UUIDLen
    THEN FALSE
    ELSE LET typename == value.name
             lower == ToLower(typename)
         IN  "uuid" = lower \/ "guid" = lower

----------------------------------------------------------------------------
(* Postgres.DataTypeOf.                                                    *)
(* A field is [Struct, IsPrimaryKey, TagSettings, parsed]: Struct is the   *)
(* shape of the field's value, parsed is what the upstream                 *)
(* model.ParseFieldStructForDialect reports for the field (the explicit    *)
(* SQL type, the size and the additional type).                            *)

\* dataValue, sqlType, size, additionalType := model.ParseFieldStructForDialect(field)
ParseFieldStructForDialect(f) ==
    [dataValue |-> f.Struct, sqlType |-> f.parsed.sqlType,
     size |-> f.parsed.size, additionalType |-> f.parsed.additionalType]

\* A rule's outcome: the SQL type it chose ("" when none) and the tag
\* settings it leaves in the field.
Rule(sqlType, tags) == [sqlType |-> sqlType, TagSettings |-> tags]

\* IsAutoIncrement with the primary-key test left out.
IsAutoIncrementTagOnly(f) == HasKey(f.TagSettings, "AUTO_INCREMENT")

\* _, ok := field.TagSettings["AUTO_INCREMENT"]; ok || field.IsPrimaryKey
IsAutoIncrement(f) == HasKey(f.TagSettings, "AUTO_INCREMENT") \/ f.IsPrimaryKey

\* IntegerRule with the tag written before the test instead of under it.
IntegerRuleTagAlways(f, serialType, plainType) ==
    Rule(IF IsAutoIncrement(f) THEN serialType ELSE plainType,
         SetKey(f.TagSettings, "AUTO_INCREMENT", "AUTO_INCREMENT"))

\* IntegerRule replacing the tag settings by a map of the one marker.
IntegerRuleFreshTags(f, serialType, plainType) ==
    IF IsAutoIncrement(f)
    THEN Rule(serialType, SetKey(EmptyMap, "AUTO_INCREMENT", "AUTO_INCREMENT"))
    ELSE Rule(plainType, f.TagSettings)

\* The two integer cases: serialType when auto-incrementing, else plainType.
IntegerRule(f, serialType, plainType) ==
    IF IsAutoIncrement(f)
    THEN Rule(serialType, SetKey(f.TagSettings, "AUTO_INCREMENT", "AUTO_INCREMENT"))
    ELSE Rule(plainType, f.TagSettings)

\* StringRule without the reset of size when no SIZE tag is set.
StringRuleKeepSize(f, parsedSize) ==
    IF parsedSize > 0 /\ parsedSize < VarcharLimit
    THEN Rule("varchar(" \o ToString(parsedSize) \o ")", f.TagSettings)
    ELSE Rule("text", f.TagSettings)

\* case reflect.String
StringRule(f, parsedSize) ==
    LET size == IF ~HasKey(f.TagSettings, "SIZE") THEN 0 ELSE parsedSize
    IN  IF size > 0 /\ size < VarcharLimit
        THEN Rule("varchar(" \o ToString(size) \o ")", f.TagSettings)
        ELSE Rule("text", f.TagSettings)

\* case reflect.Struct
StructRule(f, dataValue) ==
    IF IsTime(dataValue)
    THEN Rule("timestamp with time zone", f.TagSettings)
    ELSE Rule("", f.TagSettings)

\* MapRule comparing the type name without regard to case.
MapRuleFold(f, dataValue) ==
    IF ToLower(dataValue.name) = "hstore"
    THEN Rule("hstore", f.TagSettings)
    ELSE Rule("", f.TagSettings)

\* case reflect.Map
MapRule(f, dataValue) ==
    IF dataValue.name = "Hstore"
    THEN Rule("hstore", f.TagSettings)
    ELSE Rule("", f.TagSettings)

\* default
DefaultRule(f, dataValue) ==
    IF isByteArrayOrSlice(dataValue) THEN Rule("bytea", f.TagSettings)
    ELSE IF isUUID(dataValue) THEN Rule("uuid", f.TagSettings)
    ELSE Rule("", f.TagSettings)

\* switch dataValue.Kind()
KindRule(f, dataValue, size) ==
    LET k == dataValue.kind
    IN  CASE k = "bool" -> Rule("boolean", f.TagSettings)
          [] k \in Int32Kinds -> IntegerRule(f, "serial", "integer")
          [] k \in Int64Kinds -> IntegerRule(f, "bigserial", "bigint")
          [] k \in FloatKinds -> Rule("numeric", f.TagSettings)
          [] k = "string" -> StringRule(f, size)
          [] k = "struct" -> StructRule(f, dataValue)
          [] k = "map" -> MapRule(f, dataValue)
          [] OTHER -> DefaultRule(f, dataValue)

\* ResolveType running the kind rules first and using the explicit type
\* only when they choose none.
ResolveTypeKindFirst(f, p) ==
    LET r == KindRule(f, p.dataValue, p.size)
    IN  IF r.sqlType = "" THEN Rule(p.sqlType, r.TagSettings) ELSE r

\* if sqlType == "" { switch ... }
ResolveType(f, p) ==
    IF p.sqlType = ""
    THEN KindRule(f, p.dataValue, p.size)
    ELSE Rule(p.sqlType, f.TagSettings)

\* A nil error is <<>>, an error is <<message>>.
NoError == <<>>

\* fmt.Errorf("invalid sql type %s (%s) for postgres", Type().Name(), Kind().String())
InvalidSqlType(dataValue) ==
    <<"invalid sql type " \o dataValue.name \o " (" \o dataValue.kind
      \o ") for postgres">>

\* DataTypeOf: the returned string, the returned error, and the field as
\* the call leaves it.
DataTypeOf(f) ==
    LET p == ParseFieldStructForDialect(f)
        r == ResolveType(f, p)
        after == [f EXCEPT !.TagSettings = r.TagSettings]
    IN  IF r.sqlType = ""
        THEN [ret |-> "", err |-> InvalidSqlType(p.dataValue), field |-> after]
        ELSE IF TrimSpace(p.additionalType) = ""
        THEN [ret |-> r.sqlType, err |-> NoError, field |-> after]
        ELSE [ret |-> r.sqlType \o " " \o p.additionalType, err |-> NoError,
              field |-> after]

----------------------------------------------------------------------------
(* The descriptors the model draws.                                        *)

\* Tag settings: any subset of three keys; AUTO_INCREMENT with either of
\* two values (its presence, not its value, is what the code reads).
TagMaps ==
    {[k \in D |-> CASE k = "AUTO_INCREMENT" -> v
                    [] k = "SIZE" -> "255"
                    [] OTHER -> "id"] :
        D \in SUBSET {"AUTO_INCREMENT", "SIZE", "COLUMN"},
        v \in {"AUTO_INCREMENT", "true"}}

Sizes ==
    ((0 - MaxDelta)..MaxDelta)
    \cup ((VarcharLimit - MaxDelta)..(VarcharLimit + MaxDelta))
    \cup {255}

Parsed ==
    [sqlType : {"", "jsonb"}, size : Sizes,
     additionalType : {"", " ", "NOT NULL"}]

Fields ==
    [Struct : Values, IsPrimaryKey : BOOLEAN, TagSettings : TagMaps,
     parsed : Parsed]

----------------------------------------------------------------------------
(* Type inference: DataTypeOf called repeatedly on one descriptor.         *)

\* The variables of the other components, at rest.
CodecIdle == [op |-> "none", src |-> EmptyMap, value |-> [null |-> TRUE, bytes |-> ""],
              err |-> <<>>]
ProbeIdle == [op |-> "none"]

InitType ==
    /\ field \in Fields
    /\ calls = <<>>
    /\ h = EmptyMap
    /\ codec = CodecIdle
    /\ db = {}
    /\ probe = ProbeIdle

\* One call of DataTypeOf(field): the call record keeps the field as it
\* was handed in, what the call returned, and the field as it left it.
DataTypeOfCall ==
    /\ Len(calls) < MaxCalls
    /\ LET r == DataTypeOf(field)
       IN  /\ field' = r.field
           /\ calls' = Append(calls, [before |-> field, ret |-> r.ret,
                                      err |-> r.err, after |-> r.field])
    /\ UNCHANGED <<h, codec, db, probe>>

Next == DataTypeOfCall

Spec == InitType /\ [][Next]_vars

----------------------------------------------------------------------------
(* Properties of type inference.                                           *)

IntKinds == Int32Kinds \cup Int64Kinds

\* A type followed by the additional type, when that is not blank.
WithSuffix(type, additionalType) ==
    IF TrimSpace(additionalType) = "" THEN type
    ELSE type \o " " \o additionalType

Call(i) == calls[i]
Added(c, k) == HasKey(c.after.TagSettings, k) /\ ~HasKey(c.before.TagSettings, k)

\* C1 as stated: every call on a primary-key field of integer kind infers
\* serial or bigserial (bigserial for the 64-bit kinds, serial for the kinds
\* of at most 32 bits, either for the platform-width kinds), returns no
\* error and leaves the AUTO_INCREMENT tag set, whatever the tags, the
\* explicit SQL type and the additional type of the field are.
C1_AnyAttributes ==
    \A i \in DOMAIN calls :
        LET c == Call(i)
            k == c.before.Struct.kind
            add == c.before.parsed.additionalType
        IN  (k \in IntKinds /\ c.before.IsPrimaryKey) =>
              /\ c.err = NoError
              /\ c.ret \in
                    CASE k \in Int64Kinds -> {WithSuffix("bigserial", add)}
                      [] k \in {"int", "uint", "uintptr"} ->
                            {WithSuffix("serial", add), WithSuffix("bigserial", add)}
                      [] OTHER -> {WithSuffix("serial", add)}
              /\ HasKey(c.after.TagSettings, "AUTO_INCREMENT")

\* C1 as amended: every call on a primary-key field of integer kind that
\* carries no explicit SQL type returns serial (kinds int, int8, int16,
\* int32, uint, uint8, uint16, uint32, uintptr) or bigserial (int64, uint64),
\* followed by the additional type when that is not blank, returns no error
\* and leaves the AUTO_INCREMENT tag set.
C1_PrimaryKeySerial ==
    \A i \in DOMAIN calls :
        LET c == Call(i)
            k == c.before.Struct.kind
        IN  (k \in IntKinds /\ c.before.IsPrimaryKey /\ c.before.parsed.sqlType = "") =>
              /\ c.err = NoError
              /\ c.ret = WithSuffix(IF k \in {"int64", "uint64"} THEN "bigserial"
                                    ELSE "serial",
                                    c.before.parsed.additionalType)
              /\ HasKey(c.after.TagSettings, "AUTO_INCREMENT")

\* A primary-key uint64 field without explicit type or AUTO_INCREMENT tag
\* was inferred as bigserial NOT NULL and got the tag.
C1_Witness ==
    /\ Len(calls) >= 1
    /\ Call(1).before.Struct.kind = "uint64"
    /\ Call(1).before.IsPrimaryKey
    /\ Call(1).before.parsed.sqlType = ""
    /\ Call(1).ret = "bigserial NOT NULL"
    /\ Added(Call(1), "AUTO_INCREMENT")
    /\ field.TagSettings["AUTO_INCREMENT"] = "AUTO_INCREMENT"

\* Whether v is a 16-element byte array named uuid or guid in any case.
IsUUIDShaped(v) ==
    /\ v.kind = "array" /\ v.len = 16 /\ v.elem = "uint8"
    /\ ToLower(v.name) \in {"uuid", "guid"}

\* Whether v is an array or slice of bytes.
IsByteSequence(v) == v.kind \in {"array", "slice"} /\ v.elem = "uint8"

\* C2: a call on a field without explicit SQL type whose value is a
\* 16-element byte array with the type name uuid or guid (in any case)
\* infers uuid; on a byte array or slice that is not of that shape it
\* infers bytea.
C2_UUIDInferredAsUuid ==
    \A i \in DOMAIN calls :
        LET c == Call(i)
            v == c.before.Struct
            add == c.before.parsed.additionalType
        IN  c.before.parsed.sqlType = "" =>
              /\ IsUUIDShaped(v) => (c.err = NoError /\ c.ret = WithSuffix("uuid", add))
              /\ (IsByteSequence(v) /\ ~IsUUIDShaped(v)) =>
                    (c.err = NoError /\ c.ret = WithSuffix("bytea", add))

\* C3: a call on a string field (without explicit SQL type) infers text
\* when the tag settings hold no SIZE entry, whatever the parsed size; with a
\* SIZE entry and size s it infers varchar(s) exactly when 0 < s < 65532 and
\* text otherwise. The additional type follows when it is not blank.
C3_StringSize ==
    \A i \in DOMAIN calls :
        LET c == Call(i)
            s == c.before.parsed.size
            add == c.before.parsed.additionalType
        IN  (c.before.Struct.kind = "string" /\ c.before.parsed.sqlType = "") =>
              /\ c.err = NoError
              /\ ~HasKey(c.before.TagSettings, "SIZE") => c.ret = WithSuffix("text", add)
              /\ HasKey(c.before.TagSettings, "SIZE") =>
                    /\ (0 < s /\ s < 65532) =>
                          c.ret = WithSuffix("varchar(" \o ToString(s) \o ")", add)
                    /\ (s <= 0 \/ s >= 65532) => c.ret = WithSuffix("text", add)
                    /\ (HasPrefix(c.ret, "varchar(") <=> (0 < s /\ s < 65532))

\* A string field with a SIZE entry and the largest size below the limit
\* was inferred as varchar of that size.
C3_Witness ==
    /\ Len(calls) >= 1
    /\ Call(1).before.Struct.kind = "string"
    /\ Call(1).before.parsed.sqlType = ""
    /\ HasKey(Call(1).before.TagSettings, "SIZE")
    /\ Call(1).before.parsed.size = 65531
    /\ Call(1).ret = "varchar(65531)"

\* C4: a second call of DataTypeOf on the same field returns what the
\* first returned (the same string and the same error), and leaves the tag
\* settings as the first left them.
C4_Idempotent ==
    \A i \in DOMAIN calls : \A j \in DOMAIN calls :
        j = i + 1 =>
            /\ Call(j).ret = Call(i).ret
            /\ Call(j).err = Call(i).err
            /\ Call(j).after.TagSettings = Call(i).after.TagSettings

\* Two calls were made and the first inserted the AUTO_INCREMENT tag.
C4_Witness ==
    /\ Len(calls) = 2
    /\ Added(Call(1), "AUTO_INCREMENT")
    /\ Call(2).before.TagSettings # Call(1).before.TagSettings
    /\ Call(2).ret = "serial"

\* C8: a call on a field with a non-empty explicit SQL type returns that
\* type, followed by the additional type when that is not blank, with no
\* error, whatever the kind, and leaves the field as it was.
C8_ExplicitTypeVerbatim ==
    \A i \in DOMAIN calls :
        LET c == Call(i)
            p == c.before.parsed
        IN  p.sqlType # "" =>
              /\ c.err = NoError
              /\ c.ret = (IF TrimSpace(p.additionalType) = "" THEN p.sqlType
                          ELSE p.sqlType \o " " \o p.additionalType)
              /\ c.after = c.before

\* A primary-key integer field with an explicit type was inferred as that
\* type and has no AUTO_INCREMENT tag after the call.
C8_Witness ==
    /\ Len(calls) >= 1
    /\ Call(1).before.Struct.kind = "int64"
    /\ Call(1).before.IsPrimaryKey
    /\ Call(1).before.parsed.sqlType = "jsonb"
    /\ Call(1).ret = "jsonb NOT NULL"
    /\ ~HasKey(field.TagSettings, "AUTO_INCREMENT")

\* Whether no rule of DataTypeOf resolves a type for field f.
Unresolved(f) ==
    LET v == f.Struct
    IN  /\ f.parsed.sqlType = ""
        /\ \/ v.kind = "struct" /\ ~(v.pkg = "time" /\ v.name = "Time")
           \/ v.kind = "map" /\ v.name # "Hstore"
           \/ /\ v.kind \notin {"bool", "string", "struct", "map"}
                               \cup IntKinds \cup {"float32", "float64"}
              /\ ~(v.kind \in {"array", "slice"} /\ v.elem = "uint8")
              /\ ~(v.kind = "array" /\ v.len = 16
                    /\ ToLower(v.name) \in {"uuid", "guid"})

\* C9: a call returns an error exactly when the field has no explicit SQL
\* type and no kind rule resolves one; then the returned string is empty,
\* the error names the type and the kind, and the tag settings are as
\* before the call.
C9_UnresolvedType ==
    \A i \in DOMAIN calls :
        LET c == Call(i)
            v == c.before.Struct
        IN  /\ (c.err # NoError) <=> Unresolved(c.before)
            /\ c.err # NoError =>
                  /\ c.ret = ""
                  /\ c.err = <<"invalid sql type " \o v.name \o " (" \o v.kind
                               \o ") for postgres">>
                  /\ c.after.TagSettings = c.before.TagSettings

\* A map named hstore (not Hstore) with an additional type was refused.
C9_Witness ==
    /\ Len(calls) >= 1
    /\ Call(1).before.Struct.kind = "map"
    /\ Call(1).before.Struct.name = "hstore"
    /\ Call(1).before.parsed.additionalType = "NOT NULL"
    /\ Call(1).ret = ""
    /\ Call(1).err = <<"invalid sql type hstore (map) for postgres">>

\* What a step may do to the tag settings: t before, u after, on field f.
TagsOnlyExtended(f, t, u) ==
    /\ DOMAIN t \subseteq DOMAIN u
    /\ DOMAIN u \ DOMAIN t \subseteq {"AUTO_INCREMENT"}
    /\ \A k \in DOMAIN t \ {"AUTO_INCREMENT"} : u[k] = t[k]
    /\ DOMAIN u # DOMAIN t => (f.Struct.kind \in IntKinds /\ f.IsPrimaryKey)
    /\ f.Struct.kind \notin IntKinds => u = t

\* C10: no step removes an entry of the field's tag settings or changes
\* anything else of the field; the only key a step adds is AUTO_INCREMENT,
\* only for an integer kind on a primary key; every other key keeps its
\* value; on a non-integer kind the tag settings stay as they are.
C10_TagsOnlyExtended ==
    [][/\ field'.Struct = field.Struct
       /\ field'.IsPrimaryKey = field.IsPrimaryKey
       /\ field'.parsed = field.parsed
       /\ TagsOnlyExtended(field, field.TagSettings, field'.TagSettings)]_vars

\* A call added AUTO_INCREMENT to tag settings that held two other entries.
C10_Witness ==
    /\ Len(calls) = 2
    /\ Added(Call(1), "AUTO_INCREMENT")
    /\ DOMAIN Call(1).before.TagSettings = {"SIZE", "COLUMN"}
    /\ DOMAIN field.TagSettings = {"SIZE", "COLUMN", "AUTO_INCREMENT"}
    /\ field.TagSettings["COLUMN"] = "id"

----------------------------------------------------------------------------
(* The Hstore codec.                                                       *)
(* An Hstore (map[string]*string) is a function from the keys present to   *)
(* pointers: <<>> is the nil pointer, <<s>> a pointer to the string s. A   *)
(* nil map and an empty map are both the function with no keys (the code   *)
(* reads only len). A sql.NullString is [String, Valid]. A driver.Value is *)
(* Null (nil) or Bytes(b).                                                 *)

\* An Hstore holds at most MaxEntries keys.
MaxEntries == 2

NilPtr == <<>>
Ptr(str) == <<str>>

Null == [null |-> TRUE, bytes |-> ""]
Bytes(b) == [null |-> FALSE, bytes |-> b]

NullString(str, valid) == [String |-> str, Valid |-> valid]

\* The orders in which a range over a map with keys S may visit them.
Orders(S) ==
    {o \in [1..Cardinality(S) -> S] : \A i, j \in DOMAIN o : i # j => o[i] # o[j]}

RECURSIVE ReplaceAll(_, _, _)
\* strings.Replace(str, old, new, -1) for a one-byte old
ReplaceAll(str, old, new) ==
    IF str = "" THEN ""
    ELSE (IF CharAt(str, 1) = old THEN new ELSE CharAt(str, 1))
         \o ReplaceAll(Tail(str), old, new)

\* lib/pq hstore.hQuote on a string
hQuoteString(str) ==
    "\"" \o ReplaceAll(ReplaceAll(str, "\\", "\\\\"), "\"", "\\\"") \o "\""

\* lib/pq hstore.hQuote on a sql.NullString
hQuote(ns) == IF ~ns.Valid THEN "NULL" ELSE hQuoteString(ns.String)

RECURSIVE Join(_, _)
\* strings.Join
Join(parts, sep) ==
    IF parts = <<>> THEN ""
    ELSE IF Len(parts) = 1 THEN parts[1]
    ELSE parts[1] \o sep \o Join(Tail(parts), sep)

\* lib/pq hstore.Hstore.Value for a non-nil Map m ranged over in order.
PqHstoreValue(m, order) ==
    Bytes(Join([i \in DOMAIN order |->
                  hQuoteString(order[i]) \o "=>" \o hQuote(m[order[i]])], ","))

\* lib/pq hstore.Hstore.Scan: the state of its loop over the bytes.
ScanStart ==
    [pair0 |-> "", pair1 |-> "", pi |-> 0, inQuote |-> FALSE,
     didQuote |-> FALSE, sawSlash |-> FALSE, Map |-> EmptyMap]

\* pair[pi] = append(pair[pi], b)
AppendByte(st, b) ==
    IF st.pi = 0 THEN [st EXCEPT !.pair0 = st.pair0 \o b]
    ELSE [st EXCEPT !.pair1 = st.pair1 \o b]

\* h.Map[string(pair[0])] = the value pair[1] spells
StorePair(st) ==
    LET str == st.pair1
    IN  IF ~st.didQuote /\ Len(str) = 4 /\ ToLower(str) = "null"
        THEN SetKey(st.Map, st.pair0, NullString("", FALSE))
        ELSE SetKey(st.Map, st.pair0, NullString(str, TRUE))

\* One round of the loop, on byte b.
ScanByte(st, b) ==
    IF st.sawSlash THEN [AppendByte(st, b) EXCEPT !.sawSlash = FALSE]
    ELSE IF b = "\\" THEN [st EXCEPT !.sawSlash = TRUE]
    ELSE IF b = "\"" THEN [st EXCEPT !.inQuote = ~st.inQuote, !.didQuote = TRUE]
    ELSE IF ~st.inQuote /\ b \in {" ", "\t", "\n", "\r"} THEN st
    ELSE IF ~st.inQuote /\ b = "," THEN
        [st EXCEPT !.Map = StorePair(st), !.pair0 = "", !.pair1 = "", !.pi = 0]
    ELSE IF ~st.inQuote /\ b = "=" THEN st
    ELSE IF ~st.inQuote /\ b = ">" THEN [st EXCEPT !.pi = 1, !.didQuote = FALSE]
    ELSE AppendByte(st, b)

RECURSIVE ScanBytes(_, _)
ScanBytes(st, bytes) ==
    IF bytes = "" THEN st ELSE ScanBytes(ScanByte(st, CharAt(bytes, 1)), Tail(bytes))

\* lib/pq hstore.Hstore.Scan: the Map it parses and the error it returns.
\* The last pair is stored when the index of the last byte is above 0.
PqHstoreScan(value) ==
    IF value.null THEN [Map |-> EmptyMap, err |-> NoError]
    ELSE LET st == ScanBytes(ScanStart, value.bytes)
         IN  [Map |-> IF Len(value.bytes) - 1 > 0 THEN StorePair(st) ELSE st.Map,
              err |-> NoError]

\* Hstore.Value: the driver value of hv, its entries ranged over in order.
HstoreValue(hv, order) ==
    IF Cardinality(DOMAIN hv) = 0 THEN Null
    ELSE PqHstoreValue([key \in DOMAIN hv |->
                          IF hv[key] # NilPtr THEN NullString(hv[key][1], TRUE)
                          ELSE NullString("", FALSE)], order)

\* HstoreScan merging the parsed entries into the receiver.
HstoreScanMerge(hv, value) ==
    LET hstore == PqHstoreScan(value)
    IN  [h |-> [k \in DOMAIN hv \cup DOMAIN hstore.Map |->
                  IF k \in DOMAIN hstore.Map
                  THEN (IF hstore.Map[k].Valid THEN Ptr(hstore.Map[k].String) ELSE NilPtr)
                  ELSE hv[k]],
         err |-> hstore.err]

\* HstoreScan resetting the receiver whatever was parsed.
HstoreScanClear(hv, value) ==
    LET hstore == PqHstoreScan(value)
    IN  [h |-> [k \in DOMAIN hstore.Map |->
                  IF hstore.Map[k].Valid THEN Ptr(hstore.Map[k].String) ELSE NilPtr],
         err |-> hstore.err]

\* Hstore.Scan into the receiver hv: the receiver after, and the error.
HstoreScan(hv, value) ==
    LET hstore == PqHstoreScan(value)
    IN  IF hstore.err # NoError THEN [h |-> hv, err |-> hstore.err]
        ELSE IF Cardinality(DOMAIN hstore.Map) = 0 THEN [h |-> hv, err |-> NoError]
        ELSE [h |-> [k \in DOMAIN hstore.Map |->
                       IF hstore.Map[k].Valid THEN Ptr(hstore.Map[k].String)
                       ELSE NilPtr],
              err |-> NoError]

\* The keys and strings the model draws: plain ones, the empty string, the
\* word null, and ones with the bytes the wire format gives a meaning.
KeyStrings == {"", "a", "k\"\\,"}
ValStrings == {"", "null", "v\\\" =>,w"}

HstoreValues ==
    UNION {[D -> {NilPtr} \cup {Ptr(v) : v \in ValStrings}] :
             D \in {E \in SUBSET KeyStrings : Cardinality(E) <= MaxEntries}}

\* What the receiver of a Scan may hold before it.
Receivers ==
    UNION {[D -> {NilPtr, Ptr("old")}] :
             D \in {E \in SUBSET KeyStrings : Cardinality(E) <= MaxEntries}}

\* Driver values that no Hstore.Value produced.
RawValues ==
    {Null, Bytes(""), Bytes("a"), Bytes(","), Bytes("a=>1"),
     Bytes("a=>NULL, b=>\"null\""), Bytes(" \"a\" => \"\" ")}

InitHstore ==
    /\ h \in Receivers
    /\ codec = [op |-> "none", src |-> EmptyMap, value |-> Null, err |-> NoError]
    /\ field = CHOOSE f \in Fields : TRUE
    /\ calls = <<>>
    /\ db = {}
    /\ probe = ProbeIdle

\* value, err := hv.Value() for some Hstore hv. A behaviour is one Value
\* and the Scan of what it returned, or a run of Scans of values read from
\* the database, on a receiver drawn at the start.
Encode ==
    \E hv \in HstoreValues : \E order \in Orders(DOMAIN hv) :
        /\ codec.op = "none"
        /\ codec' = [op |-> "Value", src |-> hv, value |-> HstoreValue(hv, order),
                     err |-> NoError]
        /\ UNCHANGED <<h, field, calls, db, probe>>

\* err := h.Scan(value) with the value the last Value call returned
ScanEncoded ==
    /\ codec.op = "Value"
    /\ LET r == HstoreScan(h, codec.value)
       IN  /\ h' = r.h
           /\ codec' = [codec EXCEPT !.op = "ScanEncoded", !.err = r.err]
    /\ UNCHANGED <<field, calls, db, probe>>

\* err := h.Scan(value) with a value read from the database
ScanRaw ==
    \E value \in RawValues :
        LET r == HstoreScan(h, value)
        IN  /\ codec.op \in {"none", "ScanRaw"}
            /\ h' = r.h
            /\ codec' = [op |-> "ScanRaw", src |-> EmptyMap, value |-> value,
                         err |-> r.err]
            /\ UNCHANGED <<field, calls, db, probe>>

NextHstore == Encode \/ ScanEncoded \/ ScanRaw

SpecHstore == InitHstore /\ [][NextHstore]_vars

----------------------------------------------------------------------------
(* Properties of the Hstore codec.                                         *)

\* C5: after Scan of the driver value that Value returned for a non-empty
\* Hstore, the receiver equals that Hstore: the same keys, nil where it held
\* nil and the same string elsewhere, whatever the receiver held before;
\* Scan returns no error.
C5_RoundTrip ==
    (codec.op = "ScanEncoded" /\ Cardinality(DOMAIN codec.src) > 0) =>
        /\ codec.err = NoError
        /\ DOMAIN h = DOMAIN codec.src
        /\ \A k \in DOMAIN codec.src : h[k] = codec.src[k]

\* An Hstore with a nil entry under the empty key and an entry whose key
\* and string hold quotes, backslashes and commas went through Value and Scan.
C5_Witness ==
    /\ codec.op = "ScanEncoded"
    /\ DOMAIN codec.src = {"", "k\"\\,"}
    /\ codec.src[""] = NilPtr
    /\ codec.src["k\"\\,"] = Ptr("v\\\" =>,w")
    /\ h[""] = NilPtr
    /\ h["k\"\\,"] = Ptr("v\\\" =>,w")

\* C6: Value of an Hstore with no entries returns the nil driver value and
\* no error; Scan of the nil driver value, or of bytes that parse to no
\* entries, returns no error and leaves the receiver as it was.
C6_EmptyLeavesReceiver ==
    [][/\ (codec'.op = "Value" /\ DOMAIN codec'.src = {}) =>
             (codec'.value = Null /\ codec'.err = NoError)
       /\ (/\ codec'.op \in {"ScanEncoded", "ScanRaw"}
           /\ \/ codec'.value.null
              \/ DOMAIN PqHstoreScan(codec'.value).Map = {}) =>
             (h' = h /\ codec'.err = NoError)]_vars

\* An empty Hstore was encoded and decoded into a receiver that holds
\* entries still.
C6_Witness ==
    /\ codec.op = "ScanEncoded"
    /\ DOMAIN codec.src = {}
    /\ codec.value = Null
    /\ Cardinality(DOMAIN h) = 2

----------------------------------------------------------------------------
(* The catalog probes.                                                     *)
(* db is the database behind s.DB:                                         *)
(*   name     its name (CURRENT_DATABASE())                                *)
(*   tables   the rows of information_schema.tables, [schema, name, type]  *)
(*   columns  the rows of information_schema.columns, [table, column]      *)
(*   indexes  the rows of pg_indexes, [table, index]                       *)
(*   cons     the rows of pg_constraint, [table, name, contype]            *)
(* A query may fail (the connection, the server); its Scan then returns an *)
(* error, which every probe drops, and leaves the destination as it was.   *)

\* row.Scan(&dest): dest after the scan of a query that went ok with value v.
RowScan(dest, ok, v) == IF ok THEN v ELSE dest

\* $1 :: regclass fails for a name that is no relation.
IsRelation(d, tableName) == \E t \in d.tables : t.name = tableName

\* HasTable without the table_type condition of its query.
HasTableAnyType(d, ok, tableName) ==
    LET count == RowScan(0, ok, Cardinality({t \in d.tables : t.name = tableName}))
    IN  count > 0

HasIndex(d, ok, tableName, indexName) ==
    LET count == RowScan(0, ok,
                     Cardinality({x \in d.indexes :
                                    x.table = tableName /\ x.index = indexName}))
    IN  count > 0

HasForeignKey(d, ok, tableName, foreignKeyName) ==
    LET count == RowScan(0, ok /\ IsRelation(d, tableName),
                     Cardinality({c \in d.cons :
                                    /\ c.table = tableName
                                    /\ c.name = foreignKeyName
                                    /\ c.contype = "f"}))
    IN  count > 0

HasTable(d, ok, tableName) ==
    LET count == RowScan(0, ok,
                     Cardinality({t \in d.tables :
                                    t.name = tableName /\ t.type = "BASE TABLE"}))
    IN  count > 0

HasColumn(d, ok, tableName, columnName) ==
    LET count == RowScan(0, ok,
                     Cardinality({c \in d.columns :
                                    c.table = tableName /\ c.column = columnName}))
    IN  count > 0

CurrentDatabase(d, ok) == RowScan("", ok, d.name)

\* The names the model draws.
Schemas == {"public", "audit"}
TableNames == {"users", "orders"}
TableTypes == {"BASE TABLE", "VIEW"}
ColumnNames == {"id"}
IndexNames == {"idx_users_id"}
ConstraintNames == {"fk_user"}

\* Catalogs: in each schema a name is a base table, a view or absent.
Catalogs ==
    {[name |-> "app",
      tables |-> {[schema |-> x[1], name |-> x[2], type |-> kind[x]] :
                    x \in {y \in Schemas \X TableNames : kind[y] # "absent"}},
      columns |-> cols, indexes |-> idx, cons |-> cons] :
        kind \in [Schemas \X TableNames -> TableTypes \cup {"absent"}],
        cols \in SUBSET [table : {"users"}, column : ColumnNames],
        idx \in SUBSET [table : {"users"}, index : IndexNames],
        cons \in SUBSET [table : {"users"}, name : ConstraintNames,
                         contype : {"f", "u"}]}

Probe(op, args, failed, found, name) ==
    [op |-> op, args |-> args, failed |-> failed, found |-> found, name |-> name]

InitProbe ==
    /\ db \in Catalogs
    /\ probe = Probe("none", <<>>, FALSE, FALSE, "")
    /\ field = CHOOSE f \in Fields : TRUE
    /\ calls = <<>>
    /\ h = EmptyMap
    /\ codec = CodecIdle

Idle == UNCHANGED <<db, field, calls, h, codec>>

HasIndexCall ==
    \E ok \in BOOLEAN, t \in TableNames, i \in IndexNames :
        /\ probe' = Probe("HasIndex", <<t, i>>, ~ok, HasIndex(db, ok, t, i), "")
        /\ Idle

HasForeignKeyCall ==
    \E ok \in BOOLEAN, t \in TableNames, c \in ConstraintNames :
        /\ probe' = Probe("HasForeignKey", <<t, c>>, ~(ok /\ IsRelation(db, t)),
                          HasForeignKey(db, ok, t, c), "")
        /\ Idle

HasTableCall ==
    \E ok \in BOOLEAN, t \in TableNames :
        /\ probe' = Probe("HasTable", <<t>>, ~ok, HasTable(db, ok, t), "")
        /\ Idle

HasColumnCall ==
    \E ok \in BOOLEAN, t \in TableNames, c \in ColumnNames :
        /\ probe' = Probe("HasColumn", <<t, c>>, ~ok, HasColumn(db, ok, t, c), "")
        /\ Idle

CurrentDatabaseCall ==
    \E ok \in BOOLEAN :
        /\ probe' = Probe("CurrentDatabase", <<>>, ~ok, FALSE, CurrentDatabase(db, ok))
        /\ Idle

NextProbe ==
    \/ HasIndexCall
    \/ HasForeignKeyCall
    \/ HasTableCall
    \/ HasColumnCall
    \/ CurrentDatabaseCall

SpecProbe == InitProbe /\ [][NextProbe]_vars

----------------------------------------------------------------------------
(* Properties of the probes.                                               *)

\* The number of catalog rows the last probe's query counts.
CatalogCount ==
    LET a == probe.args
    IN  CASE probe.op = "HasTable" ->
               Cardinality({t \in db.tables : t.name = a[1] /\ t.type = "BASE TABLE"})
          [] probe.op = "HasColumn" ->
               Cardinality({c \in db.columns : c.table = a[1] /\ c.column = a[2]})
          [] probe.op = "HasIndex" ->
               Cardinality({x \in db.indexes : x.table = a[1] /\ x.index = a[2]})
          [] probe.op = "HasForeignKey" ->
               Cardinality({c \in db.cons : c.table = a[1] /\ c.name = a[2]
                                            /\ c.contype = "f"})
          [] OTHER -> 0

\* C7: a probe whose query failed returns false (HasTable, HasColumn,
\* HasIndex, HasForeignKey) or the empty string (CurrentDatabase); one whose
\* query went through returns true exactly when the catalog count is above
\* 0, so HasTable is false for a name that is no base table of the catalog
\* and true for one that is.
C7_ProbesSwallowErrors ==
    /\ probe.op \in {"HasTable", "HasColumn", "HasIndex", "HasForeignKey"} =>
          /\ probe.failed => probe.found = FALSE
          /\ ~probe.failed => (probe.found <=> CatalogCount > 0)
    /\ probe.op = "HasTable" =>
          /\ (\A t \in db.tables : t.name # probe.args[1]) => ~probe.found
          /\ (~probe.failed /\ \E t \in db.tables :
                 t.name = probe.args[1] /\ t.type = "BASE TABLE") => probe.found
    /\ probe.op = "CurrentDatabase" =>
          /\ probe.failed => probe.name = ""
          /\ ~probe.failed => probe.name = db.name

\* HasTable failed on a name that is a base table and returned false.
C7_Witness ==
    /\ probe.op = "HasTable"
    /\ probe.failed
    /\ probe.found = FALSE
    /\ \E t \in db.tables : t.name = probe.args[1] /\ t.type = "BASE TABLE"

====
